---- MODULE Spec2Model ----
(***************************************************************************)
(* A model of bru, the Bedrock Linux union filesystem (src/src/bru/bru.c), *)
(* and of brc, the chroot switch (src/src/brc/brc.c).                      *)
(*                                                                         *)
(* C strings are sequences of one-character strings; the byte after the    *)
(* last character is the terminating NUL.  The two backends are named by   *)
(* the descriptors the program holds on them, mount_fd and alt_fd.         *)
(***************************************************************************)
EXTENDS Integers, Sequences, FiniteSets, TLC

VARIABLES
    alt_files,      \* char** alt_files: the routing table, argv + 3
    alt_file_lens,  \* int* alt_file_lens: strlen of each entry
    cwd,            \* the process's working directory: "start", mount_fd or alt_fd
    euid,           \* the process's effective user id
    egid,           \* the process's effective group id
    files,          \* the two backends: files[fd][relative path] is a file
    fds,            \* the process's descriptor table beyond mount_fd and alt_fd
    handles,        \* the handles the kernel layer holds: returned with 0, not released
    nofile,         \* how many descriptors the process may open besides the
                    \* standard streams and the two backends
    req,            \* the request in progress or just answered, and its outcome
    brc             \* a run of brc (src/src/brc/brc.c): its position, its root
                    \* and working directory, its locals and the system it runs on

\* What main() leaves for the requests and no request changes; a run of brc
\* is another process, which no request changes either.
tblVars == <<alt_files, alt_file_lens, nofile, brc>>
credVars == <<euid, egid>>
fdVars == <<fds, handles>>
vars == <<alt_files, alt_file_lens, cwd, euid, egid, files, fds, handles, nofile, req, brc>>

\* No run of brc: the state of brc in the specifications of bru.
NoBrc == [pc |-> "none"]

(***************************************************************************)
(* Bounds of the model.                                                    *)
(***************************************************************************)
MaxDepth == 2       \* components in a request path
MaxTable == 2       \* entries in the routing table
MaxChildren == 2    \* children of a directory in one backend
MaxOpen == 1        \* descriptors the process may hold open at once (Spec)
MaxHandles == 2     \* descriptors the process may hold open at once (SpecHandles)
MaxLink == 3        \* bytes in a symbolic link's target
MaxBuf == 3         \* bytes in the buffer handed to readlink
MaxBlocks == 2      \* whole copy buffers in a file that is renamed

(***************************************************************************)
(* C strings.                                                              *)
(***************************************************************************)
NUL == "NUL"

\* s[i] of a C string, 0-based; s[strlen(s)] is the terminating NUL.
CStr(s, i) == IF i = Len(s) THEN NUL ELSE s[i + 1]

strlen(s) == Len(s)

Ord(c) ==
    CASE c = NUL -> 0
      [] c = "." -> 46
      [] c = "/" -> 47
      [] c = "a" -> 97
      [] c = "b" -> 98
      [] c = "c" -> 99

\* strncmp(3): compares at most n bytes and stops at a NUL.
RECURSIVE strncmp_from(_, _, _, _)
strncmp_from(s1, s2, n, i) ==
    IF i >= n THEN 0
    ELSE IF CStr(s1, i) # CStr(s2, i) THEN Ord(CStr(s1, i)) - Ord(CStr(s2, i))
    ELSE IF CStr(s1, i) = NUL THEN 0
    ELSE strncmp_from(s1, s2, n, i + 1)

strncmp(s1, s2, n) == strncmp_from(s1, s2, n, 0)

(***************************************************************************)
(* The inputs: request paths as the kernel layer hands them over (absolute,*)
(* normalised) and routing tables.                                         *)
(***************************************************************************)
Names == {<<"a">>, <<"b">>, <<"a", "b">>, <<"b", "c">>}

RECURSIVE RelPaths(_)
RelPaths(k) ==
    IF k <= 1 THEN Names
    ELSE {p \o <<"/">> \o n : p \in RelPaths(k - 1), n \in Names}

AllRelPaths == UNION {RelPaths(k) : k \in 1..MaxDepth}

ReqPaths == {<<"/">>} \cup {<<"/">> \o p : p \in AllRelPaths}

Entries ==
    {<<"a">>, <<"a", "b">>, <<"a", "/", "b">>, <<"a", "/", "b", "c">>, <<"b">>}

Tables == UNION {[1..n -> Entries] : n \in 0..MaxTable}

(***************************************************************************)
(* Globals and macros of bru.c.                                            *)
(***************************************************************************)
mount_fd == "mount_fd"
alt_fd == "alt_fd"
alt_file_count == Len(alt_files)

\* main: alt_file_lens[i] = strlen(alt_files[i])
PrecalcLens(tbl) == [i \in DOMAIN tbl |-> strlen(tbl[i])]

\* MAKE_RELATIVE(path): path = ((path[1] == '\0') ? "." : path+1)
MAKE_RELATIVE(path) == IF CStr(path, 1) = NUL THEN <<".">> ELSE Tail(path)

\* The test of CHDIR_REF's loop body, for the C index i.
CHDIR_REF_match_prefixOnly(path, i) ==
    strncmp(alt_files[i + 1], path, alt_file_lens[i + 1]) = 0

CHDIR_REF_match(path, i) ==
    /\ strncmp(alt_files[i + 1], path, alt_file_lens[i + 1]) = 0
    /\ \/ CStr(path, alt_file_lens[i + 1]) = NUL
       \/ CStr(path, alt_file_lens[i + 1]) = "/"

\* for (i=0; i < alt_file_count; i++) { if (match) { fchdir(alt_fd); break; } }
RECURSIVE CHDIR_REF_loop(_, _)
CHDIR_REF_loop(path, i) ==
    IF i >= alt_file_count THEN FALSE
    ELSE IF CHDIR_REF_match(path, i) THEN TRUE
    ELSE CHDIR_REF_loop(path, i + 1)

\* CHDIR_REF without its first fchdir(mount_fd).
CHDIR_REF_noReset(path, old, okMount, okAlt) ==
    IF CHDIR_REF_loop(path, 0)
    THEN IF ~okAlt THEN [err |-> TRUE, cwd |-> old]
         ELSE [err |-> FALSE, cwd |-> alt_fd]
    ELSE [err |-> FALSE, cwd |-> old]

\* CHDIR_REF(path): the working directory it leaves and whether it returned
\* -errno.  okMount and okAlt are the outcomes of the two fchdir calls.
CHDIR_REF(path, old, okMount, okAlt) ==
    IF ~okMount THEN [err |-> TRUE, cwd |-> old]
    ELSE IF CHDIR_REF_loop(path, 0)
         THEN IF ~okAlt THEN [err |-> TRUE, cwd |-> mount_fd]
              ELSE [err |-> FALSE, cwd |-> alt_fd]
         ELSE [err |-> FALSE, cwd |-> mount_fd]

\* The test of GET_FD_REF's loop body.
GET_FD_REF_match(path, i) ==
    /\ strncmp(alt_files[i + 1], path, alt_file_lens[i + 1]) = 0
    /\ \/ CStr(path, alt_file_lens[i + 1]) = NUL
       \/ CStr(path, alt_file_lens[i + 1]) = "/"

\* GET_FD_REF(path, fd, i): fd = mount_fd; for (...) if (match) { fd = alt_fd; break; }
RECURSIVE GET_FD_REF_loop(_, _, _)
GET_FD_REF_loop(path, fd, i) ==
    IF i >= alt_file_count THEN fd
    ELSE IF GET_FD_REF_match(path, i) THEN alt_fd
    ELSE GET_FD_REF_loop(path, fd, i + 1)

GET_FD_REF(path) == GET_FD_REF_loop(path, mount_fd, 0)

(***************************************************************************)
(* Identity.  main refuses to start unless getuid() is 0, so the daemon    *)
(* starts with every user and group id 0; the handlers change only the     *)
(* effective ids, so the real and saved ids stay as they started.          *)
(***************************************************************************)
StartCreds ==
    [ruid |-> 0, euid |-> 0, suid |-> 0, rgid |-> 0, egid |-> 0, sgid |-> 0]

\* The (uid, gid) of a request's caller, fuse_get_context().
Callers ==
    {[uid |-> 0, gid |-> 0], [uid |-> 1, gid |-> 1], [uid |-> 2, gid |-> 2]}

\* setegid(2) for a process whose effective uid is eu: allowed with
\* CAP_SETGID (effective uid 0) or to the real, effective or saved gid.
setegid(eu, eg, g) ==
    IF eu = 0 \/ g \in {StartCreds.rgid, eg, StartCreds.sgid} THEN g ELSE eg

\* seteuid(2): allowed with CAP_SETUID (effective uid 0) or to the real,
\* effective or saved uid.
seteuid(eu, u) ==
    IF eu = 0 \/ u \in {StartCreds.ruid, eu, StartCreds.suid} THEN u ELSE eu

\* SET_CALLER_UID(): setegid(context->gid); seteuid(context->uid); neither
\* return value is looked at.  Yields the effective ids it leaves.
SET_CALLER_UID(eu, eg, context) ==
    [egid |-> setegid(eu, eg, context.gid), euid |-> seteuid(eu, context.uid)]

\* A backend with nothing in it but its root directory.
EmptyBackends == [b \in {mount_fd, alt_fd} |-> <<>>]

(***************************************************************************)
(* The backends' directories as the C library shows them.                  *)
(***************************************************************************)
ENOENT == 2

Dot == <<".">>
DotDot == <<".", ".">>

\* strcmp(3)
strcmp(s1, s2) == strncmp_from(s1, s2, Len(s1) + 1, 0)

\* The mount-relative path of the entry `name` of the directory `dir`.
ChildPath(dir, name) == IF dir = Dot THEN name ELSE dir \o <<"/">> \o name

\* Whether opendir(path) finds a directory, relative to the backend fd.
DirExists(fd, path) ==
    \/ path = Dot
    \/ (path \in DOMAIN files[fd] /\ files[fd][path].kind = "dir")

ChildrenOf(fd, path) ==
    {n \in Names : ChildPath(path, n) \in DOMAIN files[fd]}

RECURSIVE SeqOfSet(_)
SeqOfSet(S) ==
    IF S = {} THEN <<>>
    ELSE LET x == CHOOSE y \in S : TRUE IN <<x>> \o SeqOfSet(S \ {x})

\* What successive readdir(3) calls return for an opened directory.
DirStream(fd, path) == <<Dot, DotDot>> \o SeqOfSet(ChildrenOf(fd, path))

(***************************************************************************)
(* bru_readdir.                                                            *)
(***************************************************************************)
\* Lines 696-702: full_path as the strcpy/strcat calls build it.
full_path_of(path, d_name) ==
    IF CStr(path, 1) = NUL THEN d_name ELSE path \o <<"/">> \o d_name

\* malloc(path_len + strlen(dir->d_name))
full_path_alloc(path, d_name) == strlen(path) + strlen(d_name)

\* The copies write the string and its terminating NUL; writing past the
\* allocation is undefined: the allocator's rounding may absorb it, or the
\* heap is corrupted and the process aborts.
full_path_overflows(path, d_name) ==
    strlen(full_path_of(path, d_name)) + 1 > full_path_alloc(path, d_name)

\* The test of the two loops over alt_files in bru_readdir.
readdir_match(full_path, i) ==
    /\ strncmp(full_path, alt_files[i + 1], alt_file_lens[i + 1]) = 0
    /\ \/ CStr(full_path, alt_file_lens[i + 1]) = NUL
       \/ CStr(full_path, alt_file_lens[i + 1]) = "/"

RECURSIVE readdir_match_loop(_, _)
readdir_match_loop(full_path, i) ==
    IF i >= alt_file_count THEN FALSE
    ELSE IF readdir_match(full_path, i) THEN TRUE
    ELSE readdir_match_loop(full_path, i + 1)

\* Whether the entry is skipped as "." or "..".
readdir_skip(d_name) == strcmp(d_name, Dot) = 0 \/ strcmp(d_name, DotDot) = 0

\* Whether the mount point loop hands an entry to the filler: match == 0.
readdir_mount_emits_all(full_path) == TRUE

readdir_mount_emits(full_path) == ~readdir_match_loop(full_path, 0)

\* Whether the alt point loop hands an entry to the filler.
readdir_alt_emits(full_path) == readdir_match_loop(full_path, 0)

\* One backend's while ((dir = readdir(d)) != NULL) loop from entry j on.
\* acc.out is what the filler has been given, acc.nover counts the copies
\* that overflowed, and the crashAt-th of them is the fatal one (0: none).
RECURSIVE readdir_loop(_, _, _, _, _, _)
readdir_loop(fd, path, stream, j, acc, crashAt) ==
    IF acc.abort \/ j > Len(stream) THEN acc
    ELSE IF readdir_skip(stream[j])
         THEN readdir_loop(fd, path, stream, j + 1, acc, crashAt)
    ELSE LET d_name == stream[j]
             full_path == full_path_of(path, d_name)
             over == full_path_overflows(path, d_name)
             n == acc.nover + (IF over THEN 1 ELSE 0)
             emit == IF fd = alt_fd THEN readdir_alt_emits(full_path)
                     ELSE readdir_mount_emits(full_path)
             out == IF emit THEN Append(acc.out, [name |-> d_name, from |-> fd])
                    ELSE acc.out
         IN  readdir_loop(fd, path, stream, j + 1,
                          [out |-> out, nover |-> n,
                           abort |-> over /\ n = crashAt], crashAt)

\* The body of bru_readdir after MAKE_RELATIVE.  okAlt and okMount are the
\* outcomes of fchdir(alt_fd) and fchdir(mount_fd).
readdir_body(path, okAlt, okMount, crashAt) ==
    LET first == [out |-> <<[name |-> Dot, from |-> "self"],
                            [name |-> DotDot, from |-> "self"]>>,
                  nover |-> 0, abort |-> FALSE]
        altOpen == okAlt /\ DirExists(alt_fd, path)
        afterAlt == IF altOpen
                    THEN readdir_loop(alt_fd, path, DirStream(alt_fd, path),
                                      1, first, crashAt)
                    ELSE first
        mountOpen == ~afterAlt.abort /\ okMount /\ DirExists(mount_fd, path)
        afterMount == IF mountOpen
                      THEN readdir_loop(mount_fd, path, DirStream(mount_fd, path),
                                        1, afterAlt, crashAt)
                      ELSE afterAlt
        exists == altOpen \/ mountOpen
    IN  [out |-> afterMount.out,
         aborted |-> afterMount.abort,
         ret |-> IF ~exists THEN -ENOENT ELSE 0]

\* The working directory bru_readdir leaves: fchdir(alt_fd), then fchdir(mount_fd).
readdir_cwd(old, okAlt, okMount, aborted) ==
    IF okMount /\ ~aborted THEN mount_fd
    ELSE IF okAlt THEN alt_fd
    ELSE old

\* How many of the copies of a readdir of path can overflow.
readdir_overflows(path) ==
    Cardinality({n \in ChildrenOf(alt_fd, path) : full_path_overflows(path, n)})
        + Cardinality({n \in ChildrenOf(mount_fd, path) : full_path_overflows(path, n)})

bru_readdir(path, context, okAlt, okMount, crashAt) ==
    LET id == SET_CALLER_UID(euid, egid, context)
        rel == MAKE_RELATIVE(path)
        r == readdir_body(rel, okAlt, okMount, crashAt)
    IN  /\ euid' = id.euid
        /\ egid' = id.egid
        /\ cwd' = readdir_cwd(cwd, okAlt, okMount, r.aborted)
        /\ req' = [op |-> "readdir", path |-> path, rel |-> rel,
                   okAlt |-> okAlt, okMount |-> okMount,
                   out |-> r.out, aborted |-> r.aborted, ret |-> r.ret]
        /\ UNCHANGED <<tblVars, files, fdVars>>

(***************************************************************************)
(* SpecReaddir: one bru_readdir of a directory whose children in the two   *)
(* backends are drawn from Names.                                          *)
(***************************************************************************)
DirPaths ==
    {<<"/">>, <<"/", "a">>, <<"/", "a", "b">>, <<"/", "a", "/", "b">>}

ChildSets == {S \in SUBSET {<<"a">>, <<"b">>, <<"b", "c">>} : Cardinality(S) <= MaxChildren}

\* The ancestors of a relative path, the path included.
Ancestors(rel) ==
    {SubSeq(rel, 1, k) : k \in {i \in 1..Len(rel) : i = Len(rel) \/ rel[i + 1] = "/"}}

\* What a backend holds at the directory: nothing, or the directory with at
\* most MaxChildren children.
DirStates ==
    {[present |-> FALSE, kids |-> {}]}
        \cup {[present |-> TRUE, kids |-> S] : S \in ChildSets}

\* A backend holding the directory dir (unless it is absent) with the
\* children S.kids.
BackendWith(dir, S) ==
    IF ~S.present THEN <<>>
    ELSE LET dirs == IF dir = Dot THEN {} ELSE Ancestors(dir)
             kids == {ChildPath(dir, n) : n \in S.kids}
         IN  [p \in dirs \cup kids |->
                 [kind |-> IF p \in dirs THEN "dir" ELSE "reg", target |-> <<>>]]

\* Routing tables of distinct entries, one order each.
ReaddirTables ==
    {SeqOfSet(S) : S \in {T \in SUBSET Entries : Cardinality(T) <= MaxTable}}

InitReaddir ==
    /\ alt_files \in ReaddirTables
    /\ alt_file_lens = PrecalcLens(alt_files)
    /\ cwd = "start"
    /\ euid = StartCreds.euid
    /\ egid = StartCreds.egid
    /\ fds = <<>>
    /\ handles = {}
    /\ nofile = MaxOpen
    /\ brc = NoBrc
    /\ \E p \in DirPaths :
          /\ req = [op |-> "none", path |-> p]
          /\ \E A \in DirStates, M \in DirStates :
                files = [b \in {mount_fd, alt_fd} |->
                            BackendWith(MAKE_RELATIVE(p), IF b = alt_fd THEN A ELSE M)]

ReaddirRequest ==
    /\ req.op = "none"
    /\ \E context \in Callers, okAlt \in BOOLEAN, okMount \in BOOLEAN,
          crashAt \in 0..readdir_overflows(MAKE_RELATIVE(req.path)) :
          bru_readdir(req.path, context, okAlt, okMount, crashAt)

NextReaddir == ReaddirRequest

SpecReaddir == InitReaddir /\ [][NextReaddir]_vars

(***************************************************************************)
(* SpecRoute: the two selectors applied to every request path under every  *)
(* routing table.                                                          *)
(***************************************************************************)
InitRoute ==
    /\ alt_files \in Tables
    /\ alt_file_lens = PrecalcLens(alt_files)
    /\ cwd = "start"
    /\ euid = StartCreds.euid
    /\ egid = StartCreds.egid
    /\ files = EmptyBackends
    /\ fds = <<>>
    /\ handles = {}
    /\ nofile = MaxOpen
    /\ brc = NoBrc
    /\ \E p \in ReqPaths :
          req = [path |-> p, rel |-> <<>>, chdir |-> "none", fd |-> "none"]

\* A path operation up to the end of CHDIR_REF.
RouteChdir ==
    /\ req.chdir = "none"
    /\ \E okMount \in BOOLEAN, okAlt \in BOOLEAN :
          LET rel == MAKE_RELATIVE(req.path)
              r == CHDIR_REF(rel, cwd, okMount, okAlt)
          IN  /\ cwd' = r.cwd
              /\ req' = [req EXCEPT !.rel = rel,
                                  !.chdir = IF r.err THEN "errno" ELSE "ok"]
    /\ UNCHANGED <<tblVars, credVars, files, fdVars>>

\* An *at operation up to the end of GET_FD_REF.
RouteGetFd ==
    /\ req.fd = "none"
    /\ LET rel == MAKE_RELATIVE(req.path)
       IN  req' = [req EXCEPT !.rel = rel, !.fd = GET_FD_REF(rel)]
    /\ UNCHANGED <<tblVars, cwd, credVars, files, fdVars>>

NextRoute == RouteChdir \/ RouteGetFd

SpecRoute == InitRoute /\ [][NextRoute]_vars

(***************************************************************************)
(* C1.  The component-prefix rule of the routing table.                    *)
(***************************************************************************)
\* P begins with the bytes of E and ends there or continues with '/'.
ComponentPrefix(E, P) ==
    /\ Len(P) >= Len(E)
    /\ SubSeq(P, 1, Len(E)) = E
    /\ (Len(P) = Len(E) \/ P[Len(E) + 1] = "/")

RoutesAlt(P, T) == \E k \in DOMAIN T : ComponentPrefix(T[k], P)

\* C1: for every relative request path and routing table, CHDIR_REF leaves the
\* working directory on the alternate backend, and GET_FD_REF yields alt_fd,
\* exactly when some table entry is a component prefix of the path, and the
\* default backend otherwise; the two selectors agree; 'a/b' is alternate
\* under {a} and {a/b} and default under {a/bc} and {ab}.
Thm_C1_RoutingRule ==
    /\ req.chdir = "ok" =>
          cwd = (IF RoutesAlt(req.rel, alt_files) THEN alt_fd ELSE mount_fd)
    /\ req.fd # "none" =>
          req.fd = (IF RoutesAlt(req.rel, alt_files) THEN alt_fd ELSE mount_fd)
    /\ (req.chdir = "ok" /\ req.fd # "none") => cwd = req.fd
    /\ (req.chdir = "ok" /\ req.rel = <<"a", "/", "b">>) =>
          /\ alt_files \in {<<<<"a">>>>, <<<<"a", "/", "b">>>>} => cwd = alt_fd
          /\ alt_files \in {<<<<"a", "/", "b", "c">>>>, <<<<"a", "b">>>>}
                => cwd = mount_fd

\* A longer entry fails, a later entry matches, and both selectors have run.
Wit_C1_RoutingRule ==
    /\ req.path = <<"/", "a", "/", "b">>
    /\ alt_files = <<<<"a", "/", "b", "c">>, <<"a">>>>
    /\ req.chdir = "ok"
    /\ cwd = alt_fd
    /\ req.fd = alt_fd


(***************************************************************************)
(* The kernel under the handlers: permission, the backends' files and the  *)
(* process's descriptors.                                                  *)
(***************************************************************************)
EBADF == 9
EACCES == 13
EEXIST == 17
EXDEV == 18
ENOTDIR == 20
EISDIR == 21
EINVAL == 22
EMFILE == 24

\* Who may search and change each backend directory besides root: the
\* alternate directory is private to uid 1, the mount point is open to all.
BackendUsers == [b \in {mount_fd, alt_fd} |-> IF b = alt_fd THEN {1} ELSE {1, 2}]

\* The kernel's permission check, made with the process's effective uid.
MayUse(eu, fd) == eu = 0 \/ eu \in BackendUsers[fd]

File(kind, target) == [kind |-> kind, target |-> target]

Exists(fd, rel) == rel = Dot \/ rel \in DOMAIN files[fd]

KindOf(fd, rel) == IF rel = Dot THEN "dir" ELSE files[fd][rel].kind

AddFile(fd, rel, f) ==
    [files EXCEPT ![fd] =
        [p \in DOMAIN files[fd] \cup {rel} |-> IF p = rel THEN f ELSE files[fd][p]]]

RemoveFile(fd, rel) ==
    [files EXCEPT ![fd] = [p \in DOMAIN files[fd] \ {rel} |-> files[fd][p]]]

\* Descriptors 0-2 are the standard streams, 3 and 4 the two backends.
FirstFd == 5
FdRange == FirstFd..(FirstFd + nofile - 1)

FreeFds == FdRange \ DOMAIN fds

LowestFree == CHOOSE n \in FreeFds : \A m \in FreeFds : n <= m

OpenFd(n, kind, fd, rel) ==
    [m \in DOMAIN fds \cup {n} |->
        IF m = n THEN [kind |-> kind, at |-> [fd |-> fd, rel |-> rel]] ELSE fds[m]]

CloseFd(n) == [m \in DOMAIN fds \ {n} |-> fds[m]]

NoTarget == [fd |-> "none", rel |-> <<>>]

\* The system calls the single-path handlers make, grouped by what they do
\* to the file at the path.
LookupCalls == {"lstat", "statvfs", "lgetxattr", "llistxattr", "faccessat"}
ChangeCalls == {"chmod", "lchown", "truncate", "lsetxattr", "lremovexattr",
                "utimensat"}
MakeCalls == {"mknod", "mkdir", "symlink"}

SysFail(e) == [ret |-> -1, errno |-> e, files |-> files, fds |-> fds]

SysOk(ret, fs, tbl) == [ret |-> ret, errno |-> 0, files |-> fs, fds |-> tbl]

\* One system call on the path rel resolved against the backend fd, made
\* with effective uid eu.  arg is the link target of symlink and the buffer
\* size of readlink, which returns how many bytes of the target it stored.
Syscall(call, fd, rel, eu, arg) ==
    IF fd \notin {mount_fd, alt_fd} THEN SysFail(ENOENT)
    ELSE IF ~MayUse(eu, fd) THEN SysFail(EACCES)
    ELSE IF call \in LookupCalls \cup ChangeCalls
         THEN IF Exists(fd, rel) THEN SysOk(0, files, fds) ELSE SysFail(ENOENT)
    ELSE IF call \in MakeCalls
         THEN IF Exists(fd, rel) THEN SysFail(EEXIST)
              ELSE SysOk(0, AddFile(fd, rel,
                               File(CASE call = "mknod" -> "reg"
                                      [] call = "mkdir" -> "dir"
                                      [] call = "symlink" -> "lnk", arg)), fds)
    ELSE IF call = "unlink"
         THEN IF ~Exists(fd, rel) THEN SysFail(ENOENT)
              ELSE IF KindOf(fd, rel) = "dir" THEN SysFail(EISDIR)
              ELSE SysOk(0, RemoveFile(fd, rel), fds)
    ELSE IF call = "rmdir"
         THEN IF ~Exists(fd, rel) THEN SysFail(ENOENT)
              ELSE IF KindOf(fd, rel) # "dir" THEN SysFail(ENOTDIR)
              ELSE IF rel = Dot THEN SysFail(EINVAL)
              ELSE SysOk(0, RemoveFile(fd, rel), fds)
    ELSE IF call = "readlink"
         THEN IF ~Exists(fd, rel) THEN SysFail(ENOENT)
              ELSE IF KindOf(fd, rel) # "lnk" THEN SysFail(EINVAL)
              ELSE SysOk(IF Len(files[fd][rel].target) < arg
                         THEN Len(files[fd][rel].target) ELSE arg, files, fds)
    ELSE IF call = "open"
         THEN IF ~Exists(fd, rel) THEN SysFail(ENOENT)
              ELSE IF FreeFds = {} THEN SysFail(EMFILE)
              ELSE SysOk(LowestFree, files, OpenFd(LowestFree, "file", fd, rel))
    ELSE IF call = "creat"
         THEN IF Exists(fd, rel) /\ KindOf(fd, rel) = "dir" THEN SysFail(EISDIR)
              ELSE IF FreeFds = {} THEN SysFail(EMFILE)
              ELSE SysOk(LowestFree,
                         IF Exists(fd, rel) THEN files
                         ELSE AddFile(fd, rel, File("reg", <<>>)),
                         OpenFd(LowestFree, "file", fd, rel))
    ELSE IF call = "opendir"
         THEN IF ~Exists(fd, rel) THEN SysFail(ENOENT)
              ELSE IF KindOf(fd, rel) # "dir" THEN SysFail(ENOTDIR)
              ELSE IF FreeFds = {} THEN SysFail(EMFILE)
              ELSE SysOk(LowestFree, files, OpenFd(LowestFree, "dir", fd, rel))
    ELSE SysFail(EINVAL)

(***************************************************************************)
(* fi->fh is a uint64_t.  A value of that type is written w * 2^64 + v     *)
(* with v a C int: converting the int x gives w = 0 for x >= 0 and w = 1   *)
(* for x < 0.                                                              *)
(***************************************************************************)
ToU64(x) == [w |-> IF x < 0 THEN 1 ELSE 0, v |-> x]

\* (int) fh: the low bits, read as a signed int.
ToInt(u) == u.v

\* u < 0 with both sides converted to uint64_t: w * 2^64 + v < 0.
U64Negative(u) == u.w = 0 /\ u.v < 0

\* A DIR * is the address of the stream opendir allocated for a descriptor.
HeapBase == 4096
DirPtr(n) == HeapBase + n
DirFdOf(ptr) == ptr - HeapBase

(***************************************************************************)
(* The handlers that take one path.                                        *)
(***************************************************************************)
\* The system call of each handler that does nothing but make it.
PlainCall ==
    [getattr |-> "lstat", mknod |-> "mknod", mkdir |-> "mkdir",
     unlink |-> "unlink", rmdir |-> "rmdir", symlink |-> "symlink",
     chmod |-> "chmod", chown |-> "lchown", truncate |-> "truncate",
     statfs |-> "statvfs", setxattr |-> "lsetxattr", getxattr |-> "lgetxattr",
     listxattr |-> "llistxattr", removexattr |-> "lremovexattr",
     access |-> "faccessat", utimens |-> "utimensat"]

\* The handlers that select the backend with GET_FD_REF and an *at call.
AtHandlers == {"access", "utimens"}

\* The backend the path classifies to by the component-prefix rule.
ClassOf(rel) ==
    IF \E k \in DOMAIN alt_files :
          /\ Len(rel) >= Len(alt_files[k])
          /\ SubSeq(rel, 1, Len(alt_files[k])) = alt_files[k]
          /\ (Len(rel) = Len(alt_files[k]) \/ rel[Len(alt_files[k]) + 1] = "/")
    THEN alt_fd ELSE mount_fd

\* SET_CALLER_UID; MAKE_RELATIVE; CHDIR_REF or GET_FD_REF: the ids and the
\* working directory they leave and the directory the path will resolve in.
Select(op, path, context) ==
    LET id == SET_CALLER_UID(euid, egid, context)
        rel == MAKE_RELATIVE(path)
    IN  IF op \in AtHandlers
        THEN [id |-> id, rel |-> rel, err |-> FALSE, cwd |-> cwd,
              fd |-> GET_FD_REF(rel)]
        ELSE LET c == CHDIR_REF(rel, cwd, MayUse(id.euid, mount_fd),
                                MayUse(id.euid, alt_fd))
             IN  [id |-> id, rel |-> rel, err |-> c.err, cwd |-> c.cwd,
                  fd |-> c.cwd]

\* SET_RET_ERRNO: if (ret < 0) ret = -errno
SET_RET_ERRNO(ret, errno) == IF ret < 0 THEN -errno ELSE ret

\* What is kept of a request: its arguments, the working directory it found
\* (cwd0), where its system call resolved the path (at), the system call's
\* own return value and error number (sysret, errno), and the answer (ret, and fh for fi->fh).
Answer(op, path, context, s, r, ret, fh) ==
    [op |-> op, path |-> path, rel |-> s.rel, context |-> context,
     at |-> IF s.err THEN NoTarget ELSE [fd |-> s.fd, rel |-> s.rel],
     cwd0 |-> cwd, issued |-> ~s.err, sysret |-> IF s.err THEN 0 ELSE r.ret,
     errno |-> IF s.err THEN EACCES ELSE r.errno,
     ret |-> ret, fh |-> fh, hat |-> NoTarget]

\* bru_getattr, bru_mknod, bru_mkdir, bru_unlink, bru_rmdir, bru_symlink,
\* bru_chmod, bru_chown, bru_truncate, bru_statfs, the four xattr handlers,
\* bru_access and bru_utimens.
bru_plain(op, path, context, arg) ==
    \E s \in {Select(op, path, context)} :
    \E r \in {Syscall(PlainCall[op], s.fd, s.rel, s.id.euid, arg)} :
        /\ euid' = s.id.euid
        /\ egid' = s.id.egid
        /\ cwd' = s.cwd
        /\ files' = IF s.err THEN files ELSE r.files
        /\ req' = Answer(op, path, context, s, r,
                         IF s.err THEN -EACCES ELSE SET_RET_ERRNO(r.ret, r.errno),
                         ToU64(0))
        /\ UNCHANGED <<tblVars, fdVars>>

\* The caller's buffer as the handler finds it: nothing is known of its bytes.
Garbage == "?"

\* The buffer after readlink stored bytes_read bytes of the target and the
\* handler stored a NUL at buf[bytes_read], and the positions stored to.
readlink_buf(target, bytes_read, bufsize) ==
    [i \in 0..(bufsize - 1) |->
        IF i < bytes_read THEN target[i + 1]
        ELSE IF i = bytes_read THEN NUL ELSE Garbage]

readlink_wrote(bytes_read, bufsize) ==
    IF bytes_read < 0 THEN {}
    ELSE IF bytes_read <= bufsize THEN 0..bytes_read ELSE 0..(bytes_read - 1)

\* bru_readlink.  With bytes_read = bufsize the NUL is stored one byte past
\* the buffer: the store may go unnoticed or end the process.
bru_readlink(path, context, bufsize) ==
    \E s \in {Select("readlink", path, context)} :
    \E r \in {Syscall("readlink", s.fd, s.rel, s.id.euid, bufsize)} :
    \E bytes_read \in {IF s.err THEN -1 ELSE r.ret} :
    \E aborted \in (IF bytes_read = bufsize THEN BOOLEAN ELSE {FALSE}) :
        /\ euid' = s.id.euid
        /\ egid' = s.id.egid
        /\ cwd' = s.cwd
        /\ req' = Answer("readlink", path, context, s, r,
                         IF s.err THEN -EACCES
                         ELSE IF bytes_read < 0 THEN -r.errno ELSE 0,
                         ToU64(0))
                   @@ [bufsize |-> bufsize,
                       buf |-> readlink_buf(IF bytes_read < 0 THEN <<>>
                                            ELSE files[s.fd][s.rel].target,
                                            bytes_read, bufsize),
                       wrote |-> readlink_wrote(bytes_read, bufsize),
                       aborted |-> aborted]
        /\ UNCHANGED <<tblVars, files, fdVars>>

\* What becomes of the kernel layer's handles when a handler that returns
\* one answers ret: it keeps the handle exactly when ret is 0.  With the
\* handle goes the file its descriptor was opened on, if the system call r
\* gave a descriptor.
Keep(ret, fh, kind, r) ==
    IF ret = 0
    THEN handles \cup {[fh |-> fh, kind |-> kind,
                        at |-> IF r.ret \in DOMAIN r.fds THEN r.fds[r.ret].at
                               ELSE NoTarget]}
    ELSE handles

bru_open(path, context) ==
    \E s \in {Select("open", path, context)} :
    \E r \in {Syscall("open", s.fd, s.rel, s.id.euid, <<>>)} :
    \E ret \in {IF s.err THEN -EACCES ELSE IF r.ret < 0 THEN -r.errno ELSE 0} :
    \E fh \in {IF s.err \/ r.ret < 0 THEN ToU64(0) ELSE ToU64(r.ret)} :
        /\ euid' = s.id.euid
        /\ egid' = s.id.egid
        /\ cwd' = s.cwd
        /\ files' = IF s.err THEN files ELSE r.files
        /\ fds' = IF s.err THEN fds ELSE r.fds
        /\ handles' = Keep(ret, fh, "file", r)
        /\ req' = Answer("open", path, context, s, r, ret, fh)
        /\ UNCHANGED tblVars

\* if ((fi->fh = creat(path, mode)) < 0) ret = -errno;
bru_create(path, context) ==
    \E s \in {Select("create", path, context)} :
    \E r \in {Syscall("creat", s.fd, s.rel, s.id.euid, <<>>)} :
    \E fh \in {IF s.err THEN ToU64(0) ELSE ToU64(r.ret)} :
    \E ret \in {IF s.err THEN -EACCES ELSE IF U64Negative(fh) THEN -r.errno ELSE 0} :
        /\ euid' = s.id.euid
        /\ egid' = s.id.egid
        /\ cwd' = s.cwd
        /\ files' = IF s.err THEN files ELSE r.files
        /\ fds' = IF s.err THEN fds ELSE r.fds
        /\ handles' = Keep(ret, fh, "file", r)
        /\ req' = Answer("create", path, context, s, r, ret, fh)
        /\ UNCHANGED tblVars

\* fi->fh = (intptr_t) d; ret = d ? 0 : -errno
bru_opendir(path, context) ==
    \E s \in {Select("opendir", path, context)} :
    \E r \in {Syscall("opendir", s.fd, s.rel, s.id.euid, <<>>)} :
    \E d \in {IF s.err \/ r.ret < 0 THEN 0 ELSE DirPtr(r.ret)} :
    \E ret \in {IF s.err THEN -EACCES ELSE IF d # 0 THEN 0 ELSE -r.errno} :
    \E fh \in {ToU64(d)} :
        /\ euid' = s.id.euid
        /\ egid' = s.id.egid
        /\ cwd' = s.cwd
        /\ files' = IF s.err THEN files ELSE r.files
        /\ fds' = IF s.err THEN fds ELSE r.fds
        /\ handles' = Keep(ret, fh, "dir", r)
        /\ req' = Answer("opendir", path, context, s, r, ret, fh)
        /\ UNCHANGED tblVars

(***************************************************************************)
(* The handlers that take a handle.  h is a handle the kernel layer holds; *)
(* the path it passes along is not looked at.                              *)
(***************************************************************************)
HandleCall ==
    [read |-> "pread", write |-> "pwrite", fsync |-> "fsync",
     ftruncate |-> "ftruncate", fgetattr |-> "fstat", fsyncdir |-> "fsync"]

\* A system call on the descriptor n: EBADF unless n is open.
FdCall(call, n) ==
    IF n \notin DOMAIN fds THEN [ret |-> -1, errno |-> EBADF, at |-> NoTarget]
    ELSE IF call \in {"pread", "pwrite", "ftruncate"} /\ fds[n].kind = "dir"
         THEN [ret |-> -1, errno |-> EISDIR, at |-> fds[n].at]
    ELSE [ret |-> IF call \in {"pread", "pwrite"} THEN 1 ELSE 0,
          errno |-> 0, at |-> fds[n].at]

HandleAnswer(op, h, path, context, r) ==
    [op |-> op, path |-> path, rel |-> path, context |-> context,
     at |-> r.at, cwd0 |-> cwd, issued |-> TRUE, sysret |-> r.ret,
     errno |-> r.errno, ret |-> SET_RET_ERRNO(r.ret, r.errno), fh |-> h.fh, hat |-> h.at]

\* A handler that classified its path again and acted on the file there.
bru_onhandle_byPath(op, h, path, context) ==
    \E id \in {SET_CALLER_UID(euid, egid, context)} :
    \E rel \in {MAKE_RELATIVE(path)} :
    \E c \in {CHDIR_REF(rel, cwd, TRUE, TRUE)} :
        /\ euid' = id.euid
        /\ egid' = id.egid
        /\ cwd' = c.cwd
        /\ req' = HandleAnswer(op, h, path, context,
                               [ret |-> 0, errno |-> 0,
                                at |-> [fd |-> c.cwd, rel |-> rel]])
        /\ UNCHANGED <<tblVars, files, fdVars>>

\* bru_read, bru_write, bru_fsync, bru_ftruncate, bru_fgetattr, bru_fsyncdir
bru_onhandle(op, h, path, context) ==
    \E id \in {SET_CALLER_UID(euid, egid, context)} :
    \E r \in {FdCall(HandleCall[op], ToInt(h.fh))} :
        /\ euid' = id.euid
        /\ egid' = id.egid
        /\ req' = HandleAnswer(op, h, path, context, r)
        /\ UNCHANGED <<tblVars, cwd, files, fdVars>>

\* close(fi->fh)
bru_release(h, path, context) ==
    LET id == SET_CALLER_UID(euid, egid, context)
        n == ToInt(h.fh)
        r == FdCall("close", n)
    IN  /\ euid' = id.euid
        /\ egid' = id.egid
        /\ fds' = CloseFd(n)
        /\ handles' = handles \ {h}
        /\ req' = HandleAnswer("release", h, path, context, r)
        /\ UNCHANGED <<tblVars, cwd, files>>

\* closedir((DIR *) fi->fh)
bru_releasedir(h, path, context) ==
    LET id == SET_CALLER_UID(euid, egid, context)
        n == DirFdOf(h.fh.v)
        r == FdCall("close", n)
    IN  /\ euid' = id.euid
        /\ egid' = id.egid
        /\ fds' = CloseFd(n)
        /\ handles' = handles \ {h}
        /\ req' = HandleAnswer("releasedir", h, path, context, r)
        /\ UNCHANGED <<tblVars, cwd, files>>

(***************************************************************************)
(* Spec: the filesystem serving requests one at a time (-s), from callers  *)
(* of any identity, in any order.                                          *)
(***************************************************************************)
OpPaths == {<<"/">>, <<"/", "a">>}

ServeTables == {<<<<"a">>>>, <<<<"a", "b">>, <<"b">>>>}

LinkTargets == {<<"a">>}

NoRequest ==
    [op |-> "none", path |-> <<"/">>, rel |-> Dot, context |-> [uid |-> 0, gid |-> 0],
     at |-> NoTarget, cwd0 |-> "start", issued |-> FALSE, sysret |-> 0,
     errno |-> 0, ret |-> 0, fh |-> ToU64(0), hat |-> NoTarget]

Init ==
    /\ alt_files \in ServeTables
    /\ alt_file_lens = PrecalcLens(alt_files)
    /\ cwd = "start"
    /\ euid = StartCreds.euid
    /\ egid = StartCreds.egid
    /\ files = EmptyBackends
    /\ fds = <<>>
    /\ handles = {}
    /\ nofile = MaxOpen
    /\ brc = NoBrc
    /\ req = NoRequest

PlainRequest ==
    \E op \in DOMAIN PlainCall, path \in OpPaths, context \in Callers,
       arg \in LinkTargets :
        bru_plain(op, path, context, arg)

ReadlinkRequest ==
    \E path \in OpPaths, context \in Callers : bru_readlink(path, context, MaxBuf)

OpenRequest == \E path \in OpPaths, context \in Callers : bru_open(path, context)

CreateRequest == \E path \in OpPaths, context \in Callers : bru_create(path, context)

OpendirRequest == \E path \in OpPaths, context \in Callers : bru_opendir(path, context)

FileHandleRequest ==
    \E h \in handles, path \in OpPaths, context \in Callers,
       op \in {"read", "write", "fsync", "ftruncate", "fgetattr"} :
        /\ h.kind = "file"
        /\ bru_onhandle(op, h, path, context)

ReleaseRequest ==
    \E h \in handles, path \in OpPaths, context \in Callers :
        /\ h.kind = "file"
        /\ bru_release(h, path, context)

FsyncdirRequest ==
    \E h \in handles, path \in OpPaths, context \in Callers :
        /\ h.kind = "dir"
        /\ bru_onhandle("fsyncdir", h, path, context)

ReleasedirRequest ==
    \E h \in handles, path \in OpPaths, context \in Callers :
        /\ h.kind = "dir"
        /\ bru_releasedir(h, path, context)

Next ==
    \/ PlainRequest
    \/ ReadlinkRequest
    \/ OpenRequest
    \/ CreateRequest
    \/ OpendirRequest
    \/ ReleaseRequest
    \/ ReleasedirRequest

Spec == Init /\ [][Next]_vars

(***************************************************************************)
(* SpecHandles: the handlers that return a handle, the handlers that take  *)
(* one, and bru_getattr between them.                                      *)
(***************************************************************************)
GetattrRequest ==
    \E path \in OpPaths, context \in Callers :
        bru_plain("getattr", path, context, <<>>)

NextHandles ==
    \/ GetattrRequest
    \/ OpenRequest
    \/ CreateRequest
    \/ OpendirRequest
    \/ FileHandleRequest
    \/ ReleaseRequest
    \/ FsyncdirRequest
    \/ ReleasedirRequest

InitHandles ==
    /\ alt_files \in ServeTables
    /\ alt_file_lens = PrecalcLens(alt_files)
    /\ cwd = "start"
    /\ euid = StartCreds.euid
    /\ egid = StartCreds.egid
    /\ files = EmptyBackends
    /\ fds = <<>>
    /\ handles = {}
    /\ nofile = MaxHandles
    /\ brc = NoBrc
    /\ req = NoRequest

SpecHandles == InitHandles /\ [][NextHandles]_vars

(***************************************************************************)
(* SpecReadlink: one bru_readlink of a symbolic link, for every length of  *)
(* its target and every size of the buffer.                                *)
(***************************************************************************)
LinkOfLen(n) == [i \in 1..n |-> IF i % 2 = 1 THEN "a" ELSE "b"]

ReadlinkTargets == {LinkOfLen(n) : n \in 1..MaxLink}

InitReadlink ==
    /\ alt_files \in ServeTables
    /\ alt_file_lens = PrecalcLens(alt_files)
    /\ cwd = "start"
    /\ euid = StartCreds.euid
    /\ egid = StartCreds.egid
    /\ \E tm \in ReadlinkTargets, ta \in ReadlinkTargets :
          files = [b \in {mount_fd, alt_fd} |->
                      (<<"a">> :> File("lnk", IF b = alt_fd THEN ta ELSE tm))]
    /\ fds = <<>>
    /\ handles = {}
    /\ nofile = MaxOpen
    /\ brc = NoBrc
    /\ req = NoRequest

ReadlinkAnySize ==
    \E path \in OpPaths, context \in Callers, bufsize \in 1..MaxBuf :
        /\ req.op = "none"
        /\ bru_readlink(path, context, bufsize)

NextReadlink == ReadlinkAnySize

SpecReadlink == InitReadlink /\ [][NextReadlink]_vars

(***************************************************************************)
(* C2.  The union a readdir shows against the routing of each child.       *)
(***************************************************************************)
\* The backend an operation on the mount-relative path rel is routed to, as
\* bru_getattr and bru_open select it.
BackendOf(rel) == CHDIR_REF(rel, cwd, TRUE, TRUE).cwd

EmittedNames == {req.out[i].name : i \in DOMAIN req.out}

UnionView(dir) ==
    {Dot, DotDot}
        \cup {n \in ChildrenOf(alt_fd, dir) : BackendOf(ChildPath(dir, n)) = alt_fd}
        \cup {n \in ChildrenOf(mount_fd, dir) : BackendOf(ChildPath(dir, n)) = mount_fd}

\* C2: for every directory (the mount root, a directory with a one-character
\* name, a nested directory) and every routing table, the names bru_readdir
\* emits are '.', '..', the alternate backend's children that route to the
\* alternate backend and the default backend's children that route to the
\* default backend, each child routed as a getattr or open of it would be.
Cex_C2_ReaddirUnion ==
    (req.op = "readdir" /\ ~req.aborted /\ req.okAlt /\ req.okMount /\ req.ret = 0)
        => EmittedNames = UnionView(req.rel)

(***************************************************************************)
(* C3.  No name twice in one readdir.                                      *)
(***************************************************************************)
\* C3: in one bru_readdir call no name is emitted twice, also when a child
\* exists in both backends; every child comes from exactly one backend; '.'
\* and '..' are emitted once each and before every other entry.
Thm_C3_ReaddirNoDuplicates ==
    req.op = "readdir" =>
        /\ Len(req.out) >= 2
        /\ req.out[1] = [name |-> Dot, from |-> "self"]
        /\ req.out[2] = [name |-> DotDot, from |-> "self"]
        /\ \A i \in DOMAIN req.out :
              i > 2 => /\ req.out[i].from \in {alt_fd, mount_fd}
                       /\ req.out[i].name \notin {Dot, DotDot}
                       /\ req.out[i].name \in ChildrenOf(req.out[i].from, req.rel)
        /\ \A i, j \in DOMAIN req.out :
              i # j => req.out[i].name # req.out[j].name

\* Two children present in both backends were listed, one from each backend.
Wit_C3_ReaddirNoDuplicates ==
    /\ req.op = "readdir"
    /\ ~req.aborted
    /\ req.ret = 0
    /\ \E i, j \in DOMAIN req.out :
          /\ req.out[i].from = alt_fd
          /\ req.out[j].from = mount_fd
          /\ {req.out[i].name, req.out[j].name}
                \subseteq ChildrenOf(alt_fd, req.rel) \cap ChildrenOf(mount_fd, req.rel)

(***************************************************************************)
(* bru_rename.  The bytes of a file are written as runs of the bytes of    *)
(* the files that existed at the start: [of, off, len] is bytes off to     *)
(* off + len - 1 of the original file named of.                            *)
(***************************************************************************)
EIO == 5
ENOSPC == 28

\* int bufsize = 8192;
copy_bufsize == 8192

Modes == {384, 420}

\* What openat may take for its mode argument when it is handed a struct stat.
AnyMode == Modes \cup {0}

Bytes(of, off, len) ==
    IF len = 0 THEN <<>> ELSE <<[of |-> of, off |-> off, len |-> len]>>

AppendBytes(d, e) ==
    IF e = <<>> THEN d
    ELSE IF d # <<>> /\ d[Len(d)].of = e[1].of
               /\ d[Len(d)].off + d[Len(d)].len = e[1].off
         THEN [d EXCEPT ![Len(d)].len = @ + e[1].len]
    ELSE d \o e

\* A file whose bytes are still those it was made with.
SizeOf(d) == IF d = <<>> THEN 0 ELSE d[1].len

ReadAt(d, pos, n) == IF n = 0 THEN <<>> ELSE Bytes(d[1].of, d[1].off + pos, n)

RegFile(data, mode) ==
    [kind |-> "reg", target |-> <<>>, data |-> data, mode |-> mode]

DirFile == [kind |-> "dir", target |-> <<>>, data |-> <<>>, mode |-> 0]

NoFile == [kind |-> "none", target |-> <<>>, data |-> <<>>, mode |-> 0]

FsHas(fs, fd, rel) == rel \in DOMAIN fs[fd]

FsPut(fs, fd, rel, f) ==
    [fs EXCEPT ![fd] = [p \in DOMAIN fs[fd] \cup {rel} |->
                           IF p = rel THEN f ELSE fs[fd][p]]]

FsDel(fs, fd, rel) ==
    [fs EXCEPT ![fd] = [p \in DOMAIN fs[fd] \ {rel} |-> fs[fd][p]]]

\* renameat(old_ref_fd, old_path, new_ref_fd, new_path): the two backends
\* are different mounts, which the kernel finds before it looks for old_path.
renameat(ofd, old, nfd, new, eu) ==
    IF ~MayUse(eu, ofd) \/ ~MayUse(eu, nfd)
    THEN [ret |-> -1, errno |-> EACCES, files |-> files]
    ELSE IF ofd # nfd THEN [ret |-> -1, errno |-> EXDEV, files |-> files]
    ELSE IF ~FsHas(files, ofd, old)
         THEN [ret |-> -1, errno |-> ENOENT, files |-> files]
    ELSE IF old = new THEN [ret |-> 0, errno |-> 0, files |-> files]
    ELSE IF FsHas(files, nfd, new) /\ files[nfd][new].kind = "dir"
                                   /\ files[ofd][old].kind # "dir"
         THEN [ret |-> -1, errno |-> EISDIR, files |-> files]
    ELSE IF FsHas(files, nfd, new) /\ files[nfd][new].kind # "dir"
                                   /\ files[ofd][old].kind = "dir"
         THEN [ret |-> -1, errno |-> ENOTDIR, files |-> files]
    ELSE [ret |-> 0, errno |-> 0,
          files |-> FsDel(FsPut(files, nfd, new, files[ofd][old]), ofd, old)]

\* What the environment may do to the copy: fail the at-th read or write,
\* or let the at-th write transfer fewer bytes than it was given.
NoFault == [kind |-> "none", at |-> 0]

Faults ==
    {NoFault} \cup [kind : {"read", "write", "short"}, at : 1..(MaxBlocks + 2)]

ShortOf(n) == IF n > 1 THEN n \div 2 ELSE n

\* while (1) { read; write; }: src is the file read, pos the offset of
\* old_path_fd, it counts the passes, dst is what new_path_fd has been given.
RECURSIVE rename_copy(_, _, _, _, _, _)
rename_copy(src, pos, it, dst, errno, fault) ==
    LET want == IF SizeOf(src.data) - pos < copy_bufsize
                THEN SizeOf(src.data) - pos ELSE copy_bufsize
        rd == IF src.kind = "dir" THEN [n |-> -1, errno |-> EISDIR]
              ELSE IF fault = [kind |-> "read", at |-> it]
                   THEN [n |-> -1, errno |-> EIO]
              ELSE [n |-> want, errno |-> errno]
        wr == IF fault = [kind |-> "write", at |-> it]
              THEN [n |-> -1, errno |-> ENOSPC]
              ELSE IF fault = [kind |-> "short", at |-> it]
                   THEN [n |-> ShortOf(rd.n), errno |-> errno]
              ELSE [n |-> rd.n, errno |-> errno]
    IN  IF rd.n < 0 THEN [how |-> "read", dst |-> dst, errno |-> rd.errno]
        ELSE IF rd.n = 0 THEN [how |-> "eof", dst |-> dst, errno |-> errno]
        ELSE IF wr.n < 0 THEN [how |-> "write", dst |-> dst, errno |-> wr.errno]
        ELSE rename_copy(src, pos + rd.n, it + 1,
                         AppendBytes(dst, ReadAt(src.data, pos, wr.n)),
                         wr.errno, fault)

RenameResult(ret, how, ioerrno, fs, tbl) ==
    [ret |-> ret, exdev |-> TRUE, how |-> how, ioerrno |-> ioerrno,
     files |-> fs, fds |-> tbl]

\* The copy/unlink that follows a renameat refused with EXDEV.  closeFails
\* names the close that fails, va_mode the mode openat reads.
rename_fallback(ofd, old, nfd, new, fault, closeFails, va_mode) ==
    LET unlinked == FsHas(files, nfd, new) /\ files[nfd][new].kind # "dir"
        fs1 == IF unlinked THEN FsDel(files, nfd, new) ELSE files
        errno1 == IF unlinked THEN EXDEV
                  ELSE IF FsHas(files, nfd, new) THEN EISDIR ELSE ENOENT
        old_path_fd == LowestFree
        tbl1 == OpenFd(old_path_fd, "file", ofd, old)
        free2 == FreeFds \ {old_path_fd}
        fs2 == FsPut(fs1, nfd, new, RegFile(<<>>, va_mode))
        c == rename_copy(fs1[ofd][old], 0, 1, <<>>, errno1, fault)
        fs3 == FsPut(fs1, nfd, new, RegFile(c.dst, va_mode))
        errno3 == IF closeFails = "none" THEN c.errno ELSE EIO
    IN  IF ~FsHas(fs1, ofd, old)
        THEN RenameResult(-ENOENT, "open_old", 0, fs1, fds)
        ELSE IF FreeFds = {}
             THEN RenameResult(-EMFILE, "open_old", 0, fs1, fds)
        ELSE IF FsHas(fs1, nfd, new)
             THEN RenameResult(-EISDIR, "open_new", 0, fs1, tbl1)
        ELSE IF free2 = {}
             THEN RenameResult(-EMFILE, "open_new", 0, fs1, tbl1)
        ELSE IF c.how # "eof"
             THEN RenameResult(-errno3, c.how, c.errno, fs3, fds)
        ELSE RenameResult(0, "eof", 0, FsDel(fs3, ofd, old), fds)

\* A bru_rename whose fallback removes the source whether or not the copy
\* was completed.
rename_body_unlinkAlways(ofd, old, nfd, new, eu, fault, closeFails, va_mode) ==
    LET r == renameat(ofd, old, nfd, new, eu)
        ret == IF r.ret < 0 THEN -r.errno ELSE 0
        f == rename_fallback(ofd, old, nfd, new, fault, closeFails, va_mode)
    IN  IF ret # -EXDEV
        THEN [ret |-> ret, exdev |-> FALSE, how |-> "renameat", ioerrno |-> 0,
              files |-> r.files, fds |-> fds]
        ELSE [f EXCEPT !.files = IF FsHas(f.files, ofd, old)
                                 THEN FsDel(f.files, ofd, old) ELSE f.files]

rename_body(ofd, old, nfd, new, eu, fault, closeFails, va_mode) ==
    LET r == renameat(ofd, old, nfd, new, eu)
        ret == IF r.ret < 0 THEN -r.errno ELSE 0
    IN  IF ret # -EXDEV
        THEN [ret |-> ret, exdev |-> FALSE, how |-> "renameat", ioerrno |-> 0,
              files |-> r.files, fds |-> fds]
        ELSE rename_fallback(ofd, old, nfd, new, fault, closeFails, va_mode)

bru_rename(old_path, new_path, context, fault, closeFails, va_mode) ==
    \E id \in {SET_CALLER_UID(euid, egid, context)} :
    \E old \in {MAKE_RELATIVE(old_path)}, new \in {MAKE_RELATIVE(new_path)} :
    \E old_ref_fd \in {GET_FD_REF(old)}, new_ref_fd \in {GET_FD_REF(new)} :
    \E r \in {rename_body(old_ref_fd, old, new_ref_fd, new, id.euid,
                          fault, closeFails, va_mode)} :
        /\ euid' = id.euid
        /\ egid' = id.egid
        /\ files' = r.files
        /\ fds' = r.fds
        /\ req' = [op |-> "rename", old |-> old, new |-> new,
                   context |-> context, old_ref_fd |-> old_ref_fd,
                   new_ref_fd |-> new_ref_fd, exdev |-> r.exdev,
                   src0 |-> IF FsHas(files, old_ref_fd, old)
                            THEN files[old_ref_fd][old] ELSE NoFile,
                   how |-> r.how, ioerrno |-> r.ioerrno, ret |-> r.ret]
        /\ UNCHANGED <<tblVars, cwd, handles>>

(***************************************************************************)
(* SpecRename: one bru_rename between two names, each a file of some       *)
(* length and mode, a directory or missing, in the backend it classifies   *)
(* to.                                                                     *)
(***************************************************************************)
RenamePaths == {<<"/", "a">>, <<"/", "b">>}

SrcLens == {k * copy_bufsize + d : k \in 0..MaxBlocks, d \in {0, 1}}

FileStates(name) ==
    {NoFile, DirFile} \cup {RegFile(Bytes(name, 0, n), mo) : n \in SrcLens, mo \in Modes}

InitRename ==
    /\ alt_files \in ServeTables
    /\ alt_file_lens = PrecalcLens(alt_files)
    /\ cwd = "start"
    /\ euid = StartCreds.euid
    /\ egid = StartCreds.egid
    /\ \E fa \in FileStates("a"), fb \in FileStates("b") :
          files = [b \in {mount_fd, alt_fd} |->
                      [p \in {q \in {<<"a">>, <<"b">>} :
                                 /\ GET_FD_REF(q) = b
                                 /\ (IF q = <<"a">> THEN fa ELSE fb) # NoFile} |->
                          IF p = <<"a">> THEN fa ELSE fb]]
    /\ fds = <<>>
    /\ handles = {}
    /\ nofile = MaxHandles
    /\ brc = NoBrc
    /\ req = NoRequest

RenameRequest ==
    \E old_path \in RenamePaths, new_path \in RenamePaths, context \in Callers,
       fault \in Faults, closeFails \in {"none", "old", "new"}, va_mode \in AnyMode :
        /\ req.op = "none"
        /\ bru_rename(old_path, new_path, context, fault, closeFails, va_mode)

NextRename == RenameRequest

SpecRename == InitRename /\ [][NextRename]_vars

\* C8.  A rename that fell back to copying and returned 0 has removed the
\* source name and left the destination name with all the bytes and the
\* permission mode the source had.
Cex_C8_RenameCopiesAll ==
    req.op = "rename" /\ req.exdev /\ req.ret = 0 =>
        /\ ~FsHas(files, req.old_ref_fd, req.old)
        /\ FsHas(files, req.new_ref_fd, req.new)
        /\ files[req.new_ref_fd][req.new].data = req.src0.data
        /\ files[req.new_ref_fd][req.new].mode = req.src0.mode

\* C9.  A rename whose copy met a failing read or write has closed both
\* descriptors and returns the negated error number of that read or write,
\* which is neither 0 nor the cross-device error.
Cex_C9_RenameCopyError ==
    req.op = "rename" /\ req.how \in {"read", "write"} =>
        /\ fds = <<>>
        /\ req.ret = -req.ioerrno
        /\ req.ret # 0
        /\ req.ret # -EXDEV

\* C10.  bru_readlink stores to positions 0..bufsize-1 of the buffer only,
\* leaves a NUL among them when readlink succeeded, and then returns 0.
Cex_C10_ReadlinkTerminates ==
    req.op = "readlink" =>
        /\ ~req.aborted
        /\ req.wrote \subseteq 0..(req.bufsize - 1)
        /\ (req.issued /\ req.sysret >= 0 =>
                /\ \E i \in 0..(req.bufsize - 1) : req.buf[i] = NUL
                /\ req.ret = 0)

(***************************************************************************)
(* The requests of Spec that take one path, and the other backend.         *)
(***************************************************************************)
SinglePathOps == DOMAIN PlainCall \cup {"readlink", "open", "create", "opendir"}

Other(fd) == IF fd = alt_fd THEN mount_fd ELSE alt_fd

\* C4.  Whatever requests came before, a request's system call is made with
\* the effective uid and gid of that request's caller, and a caller who may
\* not use the backend its path classifies to is answered permission-denied.
Cex_C4_CallerIdentity ==
    req.op # "none" =>
        /\ euid = req.context.uid
        /\ egid = req.context.gid
        /\ (req.op \in SinglePathOps
                /\ ~MayUse(req.context.uid, ClassOf(req.rel))
             => req.ret = -EACCES)

\* C5.  After any earlier requests, a single-path operation that reaches its
\* system call resolves its path in the backend the path classifies to,
\* and the files of the other backend are what they were before it.
Thm_C5_OwnBackend ==
    /\ [](req.op \in SinglePathOps /\ req.issued
             => req.at = [fd |-> ClassOf(req.rel), rel |-> req.rel])
    /\ [][req'.op \in SinglePathOps
             => files'[Other(ClassOf(req'.rel))] = files[Other(ClassOf(req'.rel))]]_vars

\* A create routed to the alternate backend by a process whose working
\* directory the request before had left at the mount point.
Wit_C5_OwnBackend ==
    /\ req.op = "create"
    /\ req.cwd0 = mount_fd
    /\ req.at.fd = alt_fd
    /\ req.sysret >= 0
    /\ <<"a">> \in DOMAIN files[alt_fd]
    /\ <<"a">> \notin DOMAIN files[mount_fd]

\* C6.  open, create and opendir answer 0 exactly when the underlying open,
\* creat or opendir succeeded, the handle then being the object just
\* opened; when the call failed they answer the negated error number.
Cex_C6_HandleOrError ==
    req.op \in {"open", "create", "opendir"} /\ req.issued =>
        /\ (req.ret = 0 <=> req.sysret >= 0)
        /\ (req.ret = 0 =>
                \E h \in handles : h.fh = req.fh /\ h.at = req.at)
        /\ (req.sysret < 0 => req.ret = -req.errno)

\* C7.  read, write, fsync, ftruncate, fgetattr and release on a handle
\* act on the file the handle's descriptor was opened on (on no file when
\* the handle carries no descriptor), whatever path is passed, and leave
\* the working directory where the requests in between had put it.
Thm_C7_StickyHandle ==
    req.op \in {"read", "write", "fsync", "ftruncate", "fgetattr", "release"} =>
        /\ req.at = req.hat
        /\ cwd = req.cwd0

\* A write through a handle opened in the alternate backend, passed a path
\* of the mount point, after a request had moved the working directory to
\* the mount point.
Wit_C7_StickyHandle ==
    /\ req.op = "write"
    /\ req.sysret >= 0
    /\ req.hat.fd = alt_fd
    /\ req.at = req.hat
    /\ ClassOf(MAKE_RELATIVE(req.path)) = mount_fd
    /\ cwd = mount_fd

(***************************************************************************)
(* main(): from the argument list to fuse_main.  argv[3..] is the routing  *)
(* table as given, before anything has looked at it.                       *)
(***************************************************************************)
StartEntries ==
    {<<>>, <<"a">>, <<"/", "a">>, <<"a", "/">>, <<"/">>, <<"a", "/", "b">>}

StartTables == UNION {[1..n -> StartEntries] : n \in 0..MaxTable}

\* What may lie in the byte before a string: anything.
BytesBefore == {NUL, "/", "a"}

\* s[i] for a size_t i: strlen(s) - 1 of the empty string is SIZE_MAX, and
\* s[SIZE_MAX] is the byte before the string.
CStrAt(s, i, before) == IF i < 0 THEN before ELSE CStr(s, i)

\* alt_files[i][0] == '/' || alt_files[i][strlen(alt_files[i])-1] == '/'
main_rejects(entry, before) ==
    \/ CStr(entry, 0) = "/"
    \/ CStrAt(entry, strlen(entry) - 1, before) = "/"

\* The validation loop: TRUE when no entry made main return 1.
main_validate(argv, before) ==
    \A i \in DOMAIN argv : ~main_rejects(argv[i], before)

\* main() up to the call of fuse_main or a return before it.
main(argc, argv, uid, mountOk, altOk, before) ==
    \E early \in {argc < 2 \/ uid # 0 \/ argc < 3 \/ ~mountOk \/ ~altOk} :
    \E valid \in {main_validate(argv, before)} :
        /\ alt_files' = IF early THEN <<>> ELSE argv
        /\ alt_file_lens' = IF early \/ ~valid THEN <<>> ELSE PrecalcLens(argv)
        /\ req' = [op |-> "main", argc |-> argc, argv |-> argv, uid |-> uid,
                   serving |-> ~early /\ valid,
                   ret |-> IF ~early /\ valid THEN 0 ELSE 1]
        /\ UNCHANGED <<nofile, cwd, euid, egid, files, fds, handles, brc>>

InitStartup ==
    /\ alt_files = <<>>
    /\ alt_file_lens = <<>>
    /\ cwd = "start"
    /\ euid = StartCreds.euid
    /\ egid = StartCreds.egid
    /\ files = EmptyBackends
    /\ fds = <<>>
    /\ handles = {}
    /\ nofile = MaxOpen
    /\ brc = NoBrc
    /\ \E argv \in StartTables : req = [op |-> "none", argv |-> argv]

MainRuns ==
    \E argc \in {1, 2, 3 + Len(req.argv)}, uid \in {0, 1},
       mountOk \in BOOLEAN, altOk \in BOOLEAN, before \in BytesBefore :
        /\ req.op = "none"
        /\ argc < 3 => req.argv = <<>>
        /\ main(argc, req.argv, uid, mountOk, altOk, before)

NextStartup == MainRuns

SpecStartup == InitStartup /\ [][NextStartup]_vars

\* C11.  fuse_main is reached only with a table whose entries are all
\* non-empty and neither begin nor end with '/'; with any other table main
\* returns non-zero before it.
Cex_C11_TableValidated ==
    req.op = "main" =>
        /\ (req.serving =>
                \A i \in DOMAIN alt_files :
                    /\ alt_files[i] # <<>>
                    /\ alt_files[i][1] # "/"
                    /\ alt_files[i][Len(alt_files[i])] # "/")
        /\ ((\E i \in DOMAIN req.argv :
                 \/ req.argv[i] = <<>>
                 \/ req.argv[i][1] = "/"
                 \/ req.argv[i][Len(req.argv[i])] = "/")
             => ~req.serving /\ req.ret # 0)

(***************************************************************************)
(* brc, the chroot switch (src/src/brc/brc.c).                             *)
(*                                                                         *)
(* A run of brc is one process; brc.pc is the statement it is at.  The     *)
(* directories it can be in or rooted at are numbered along the ascent     *)
(* path: RealRoot is the root of the system, and directory k + 1 has       *)
(* directory k as its parent.  The process starts rooted at directory      *)
(* brc.depth (RealRoot when it is not jailed) with its working directory   *)
(* one level below that.                                                   *)
(***************************************************************************)
MaxJail == 2        \* directories between the real root and the caller's root

RealRoot == 0
\* #define CONFIGDIR "/bedrock/etc/clients.d/", as a directory of the caller's
\* root
CONFIGDIR == 0 - 1
\* client_path: CLIENTDIR followed by argv[1], as a directory of the real root
client_path == 0 - 2
\* cwd_path: what getcwd() returned, as a directory of the new root
cwd_path == 0 - 3

\* ".." of a directory of the ascent path
DotDotOf(dir) == IF dir = RealRoot THEN RealRoot ELSE dir - 1

\* st_dev and st_ino of a directory.  shape tells what client_path is:
\* "bound" when the real root is bind-mounted there.
StatOf(dir, shape) ==
    IF dir = client_path /\ shape # "bound" THEN [st_dev |-> 2, st_ino |-> 2]
    ELSE IF dir = client_path THEN [st_dev |-> 1, st_ino |-> 2]
    ELSE IF dir = CONFIGDIR THEN [st_dev |-> 1, st_ino |-> 9]
    ELSE [st_dev |-> 1, st_ino |-> 2 + dir]

\* What an automatic struct stat may hold before anything is stored in it.
Indeterminate == {[st_dev |-> 0, st_ino |-> 0], [st_dev |-> 1, st_ino |-> 2]}

\* exit(status)
exit(b, status) == [b EXCEPT !.pc = "exit", !.status = status]

\* The kernel's chdir(): where the working directory is afterwards.  ok is
\* FALSE when the call fails for a reason outside the model (EIO, ENOMEM).
chdir_succeeds(b, dir, ok) == ok /\ dir \notin b.nosearch

chdir(b, dir, ok) == IF chdir_succeeds(b, dir, ok) THEN dir ELSE b.cwd

\* The kernel's chroot(): where the root is afterwards.  CAP_SYS_CHROOT must
\* be in the effective set, whatever the process believes.
chroot_succeeds(b, dir, ok) == ok /\ b.effective /\ dir \notin b.nosearch

chroot(b, dir, ok) == IF chroot_succeeds(b, dir, ok) THEN dir ELSE b.root

\* The kernel's lstat(): what the buffer holds afterwards.
lstat(b, dir, ok, buf) ==
    IF ok THEN StatOf(dir, b.shape) ELSE buf

\* Whether an absolute path below the real root names something for the
\* process: only when its root is the real root.
SeesClient(b) == b.root = RealRoot /\ b.shape # "missing"

\* The statement main() goes to after the statement or call at pc.
main_next_noConfig(pc, client) ==
    CASE pc = "main" -> "ensure_capsyschroot"
      [] pc = "ensure_capsyschroot" -> "chdir_root"
      [] pc = "ensure_config_secure" -> "chdir_root"
      [] pc = "chroot_dot" -> "resolve"
      [] pc = "resolve" -> "chroot_client"
      [] pc = "chroot_client" -> "restore"
      [] pc = "restore" -> "execvp"

main_next(pc, client) ==
    CASE pc = "main" -> "ensure_capsyschroot"
      [] pc = "ensure_capsyschroot" ->
            IF client # "pid1" THEN "ensure_config_secure" ELSE "chdir_root"
      [] pc = "ensure_config_secure" -> "chdir_root"
      [] pc = "chroot_dot" -> "resolve"
      [] pc = "resolve" -> "chroot_client"
      [] pc = "chroot_client" -> "restore"
      [] pc = "restore" -> "execvp"

\* What no statement of brc changes: the state of bru.
brcFrame == <<alt_files, alt_file_lens, cwd, euid, egid, files, fds, handles,
              nofile, req>>

\* main(): if (argc < 2) exit(1), then the paths are gathered.
main_args ==
    /\ brc.pc = "main"
    /\ brc' = IF brc.argc < 2 THEN [exit(brc, 1) EXCEPT !.failed = TRUE]
              ELSE [brc EXCEPT !.pc = main_next("main", brc.client)]
    /\ UNCHANGED brcFrame

\* ensure_capsyschroot(): got is FALSE when cap_get_proc() returns NULL, and
\* then cap_get_flag() stores nothing and the two flags are what they were.
ensure_capsyschroot ==
    /\ brc.pc = "ensure_capsyschroot"
    /\ \E got \in BOOLEAN, flag_p \in BOOLEAN, flag_e \in BOOLEAN :
       LET chroot_permitted == IF got THEN brc.permitted ELSE flag_p
           chroot_effective == IF got THEN brc.effective ELSE flag_e
       IN  brc' = IF ~chroot_permitted \/ ~chroot_effective
                  THEN [exit(brc, 1) EXCEPT !.failed = TRUE]
                  ELSE [brc EXCEPT !.capPassed = TRUE,
                           !.pc = main_next("ensure_capsyschroot", brc.client)]
    /\ UNCHANGED brcFrame

\* ensure_config_secure() of libbedrock: returns when the configuration file
\* is secure and exits non-zero otherwise.
ensure_config_secure ==
    /\ brc.pc = "ensure_config_secure"
    /\ brc' = IF ~brc.secure
              THEN [exit(brc, 1) EXCEPT !.failed = TRUE, !.confChecked = TRUE]
              ELSE [brc EXCEPT !.confChecked = TRUE, !.confPassed = TRUE,
                       !.pc = main_next("ensure_config_secure", brc.client)]
    /\ UNCHANGED brcFrame

\* break_out_of_chroot(): chdir("/");
chdir_root ==
    /\ brc.pc = "chdir_root"
    /\ \E ok \in BOOLEAN :
          brc' = [brc EXCEPT !.cwd = chdir(brc, brc.root, ok), !.moved = TRUE,
                             !.pc = "chroot_conf"]
    /\ UNCHANGED brcFrame

\* break_out_of_chroot(): if (chroot(CONFIGDIR) == -1) exit(1); and the two
\* struct stat are declared.
chroot_conf ==
    /\ brc.pc = "chroot_conf"
    /\ \E ok \in BOOLEAN, pwd0 \in Indeterminate, parent0 \in Indeterminate :
          brc' = IF ~chroot_succeeds(brc, CONFIGDIR, ok /\ brc.confdir)
                 THEN [exit(brc, 1) EXCEPT !.moved = TRUE, !.failed = TRUE]
                 ELSE [brc EXCEPT !.root = CONFIGDIR, !.moved = TRUE,
                                  !.stat_pwd = pwd0, !.stat_parent = parent0,
                                  !.pc = "ascend_chdir"]
    /\ UNCHANGED brcFrame

\* The loop body's chdir("..");
ascend_chdir ==
    /\ brc.pc = "ascend_chdir"
    /\ \E ok \in BOOLEAN :
          brc' = [brc EXCEPT
                     !.cwd = chdir(brc, DotDotOf(brc.cwd), ok),
                     !.failed = @ \/ ~chdir_succeeds(brc, DotDotOf(brc.cwd), ok),
                     !.pc = "ascend_lstat"]
    /\ UNCHANGED brcFrame

\* The loop body's two lstat() and the loop's condition.
ascend_lstat ==
    /\ brc.pc = "ascend_lstat"
    /\ \E ok1 \in BOOLEAN, ok2 \in BOOLEAN :
       LET stat_pwd == lstat(brc, brc.cwd, ok1, brc.stat_pwd)
           stat_parent == lstat(brc, DotDotOf(brc.cwd), ok2, brc.stat_parent)
           again == \/ stat_pwd.st_ino # stat_parent.st_ino
                    \/ stat_pwd.st_dev # stat_parent.st_dev
       IN  brc' = [brc EXCEPT
                      !.stat_pwd = stat_pwd, !.stat_parent = stat_parent,
                      !.failed = @ \/ ~ok1 \/ ~ok2,
                      !.pc = IF again THEN "ascend_chdir" ELSE "chroot_dot"]
    /\ UNCHANGED brcFrame

\* break_out_of_chroot(): chroot("."); and the return to main().
chroot_dot ==
    /\ brc.pc = "chroot_dot"
    /\ \E ok \in BOOLEAN :
          brc' = [brc EXCEPT
                     !.root = chroot(brc, brc.cwd, ok),
                     !.failed = @ \/ ~chroot_succeeds(brc, brc.cwd, ok),
                     !.pc = main_next("chroot_dot", brc.client)]
    /\ UNCHANGED brcFrame

\* main(): the two lstat(), the comparison and chdir(client_path).
resolve ==
    /\ brc.pc = "resolve"
    /\ \E ok1 \in BOOLEAN, ok2 \in BOOLEAN, ok3 \in BOOLEAN,
          real0 \in Indeterminate, client0 \in Indeterminate :
       LET stat_real_root == lstat(brc, brc.cwd, ok1, real0)
           stat_client_path ==
               lstat(brc, client_path, ok2 /\ SeesClient(brc), client0)
           differ == \/ stat_real_root.st_dev # stat_client_path.st_dev
                     \/ stat_real_root.st_ino # stat_client_path.st_ino
           enter == ok3 /\ SeesClient(brc) /\ brc.shape # "locked"
           c == [brc EXCEPT !.stat_real_root = stat_real_root,
                            !.stat_client_path = stat_client_path]
       IN  brc' = IF brc.client # "pid1" /\ differ
                  THEN IF ~chdir_succeeds(brc, client_path, enter)
                       THEN [exit(c, 1) EXCEPT !.failed = TRUE]
                       ELSE [c EXCEPT !.cwd = client_path,
                                      !.pc = main_next("resolve", brc.client)]
                  ELSE [c EXCEPT !.pc = main_next("resolve", brc.client)]
    /\ UNCHANGED brcFrame

\* main(): chroot(".");
chroot_client ==
    /\ brc.pc = "chroot_client"
    /\ \E ok \in BOOLEAN :
          brc' = [brc EXCEPT
                     !.root = chroot(brc, brc.cwd, ok),
                     !.failed = @ \/ ~chroot_succeeds(brc, brc.cwd, ok),
                     !.pc = main_next("chroot_client", brc.client)]
    /\ UNCHANGED brcFrame

\* main(): if (chdir(cwd_path) != 0) chdir("/");
restore ==
    /\ brc.pc = "restore"
    /\ \E ok \in BOOLEAN, ok2 \in BOOLEAN :
          brc' = [brc EXCEPT
                     !.cwd = IF ok THEN cwd_path ELSE chdir(brc, brc.root, ok2),
                     !.pc = main_next("restore", brc.client)]
    /\ UNCHANGED brcFrame

\* main(): execvp(cmd[0], cmd); perror("execvp"); return -1;
execvp ==
    /\ brc.pc = "execvp"
    /\ \E ok \in BOOLEAN :
          brc' = IF ok THEN [brc EXCEPT !.pc = "running", !.ran = brc.root]
                 ELSE [exit(brc, 255) EXCEPT !.failed = TRUE]
    /\ UNCHANGED brcFrame

(***************************************************************************)
(* SpecBrc: one run of brc on every system of the bounds: with or without  *)
(* a client argument, for pid1 and for another client, with the capability *)
(* in both sets, in the permitted set only or in neither, with a secure or *)
(* an insecure configuration file, from every jail depth, with the client  *)
(* directory distinct, bound to the real root, missing or not enterable,   *)
(* with at most one ancestor the caller may not search, and with or        *)
(* without CONFIGDIR in the caller's root.                                 *)
(***************************************************************************)
NotRun == 0 - 9

InitBrc ==
    /\ alt_files = <<>>
    /\ alt_file_lens = <<>>
    /\ cwd = "start"
    /\ euid = StartCreds.euid
    /\ egid = StartCreds.egid
    /\ files = EmptyBackends
    /\ fds = <<>>
    /\ handles = {}
    /\ nofile = MaxOpen
    /\ req = NoRequest
    /\ \E argc \in {1, 2}, client \in {"pid1", "alpha"},
          caps \in {<<TRUE, TRUE>>, <<TRUE, FALSE>>, <<FALSE, FALSE>>},
          secure \in BOOLEAN, depth \in 0..MaxJail,
          shape \in {"distinct", "bound", "missing", "locked"},
          confdir \in BOOLEAN :
       \E nosearch \in {{}} \cup {{k} : k \in 0..(depth - 1)} :
          brc = [pc |-> "main", argc |-> argc, client |-> client,
                 permitted |-> caps[1], effective |-> caps[2],
                 secure |-> secure, depth |-> depth, shape |-> shape,
                 nosearch |-> nosearch, confdir |-> confdir,
                 root |-> depth, cwd |-> depth + 1,
                 stat_pwd |-> [st_dev |-> 0, st_ino |-> 0],
                 stat_parent |-> [st_dev |-> 0, st_ino |-> 0],
                 stat_real_root |-> [st_dev |-> 0, st_ino |-> 0],
                 stat_client_path |-> [st_dev |-> 0, st_ino |-> 0],
                 capPassed |-> FALSE, confChecked |-> FALSE,
                 confPassed |-> FALSE, moved |-> FALSE, failed |-> FALSE,
                 status |-> NotRun, ran |-> NotRun]

NextBrc ==
    \/ main_args
    \/ ensure_capsyschroot
    \/ ensure_config_secure
    \/ chdir_root
    \/ chroot_conf
    \/ ascend_chdir
    \/ ascend_lstat
    \/ chroot_dot
    \/ resolve
    \/ chroot_client
    \/ restore
    \/ execvp

SpecBrc == InitBrc /\ [][NextBrc]_vars

\* C12.  No chdir and no chroot is issued before ensure_capsyschroot has
\* returned and, for a client other than pid1, before ensure_config_secure
\* has returned; a process without CAP_SYS_CHROOT in its permitted or its
\* effective set never changes its root, never executes the command, and its
\* exit status is non-zero; for pid1 ensure_config_secure is not called.
Thm_C12_ChecksBeforeMoves ==
    /\ brc.moved => brc.capPassed
    /\ brc.moved /\ brc.client # "pid1" => brc.confPassed
    /\ ~(brc.permitted /\ brc.effective) =>
          /\ brc.root = brc.depth
          /\ brc.pc # "running"
          /\ brc.pc = "exit" => brc.status # 0
    /\ brc.client = "pid1" => ~brc.confChecked

Wit_C12_ChecksBeforeMoves ==
    /\ brc.client # "pid1"
    /\ brc.moved
    /\ brc.confPassed
    /\ brc.capPassed
    /\ brc.root # brc.depth

\* C13.  From every jail depth, when break_out_of_chroot has returned the
\* root and the working directory of the process are both the real root (in
\* every system of the model the real root is the only directory of the
\* ascent path with the st_dev and st_ino of its parent).
Cex_C13_EscapeEndsAtRealRoot ==
    brc.pc = "resolve" => brc.root = RealRoot /\ brc.cwd = RealRoot

\* The root the command is to run under: the real root for pid1 and for a
\* client whose directory is the real root, the client's directory otherwise.
ResolvedRoot(b) ==
    IF b.client = "pid1" \/ b.shape = "bound" THEN RealRoot ELSE client_path

\* C14.  The command is executed under the resolved root only, and when the
\* directory of a client other than pid1 is missing or cannot be entered
\* the command is not executed and the exit status is non-zero.
Cex_C14_ExecUnderResolvedRoot ==
    /\ brc.pc = "running" =>
          StatOf(brc.ran, brc.shape) = StatOf(ResolvedRoot(brc), brc.shape)
    /\ brc.client # "pid1" /\ brc.shape \in {"missing", "locked"} =>
          /\ brc.pc # "running"
          /\ brc.pc = "exit" => brc.status # 0

\* C15.  Once a step before the command has failed (no client argument, a
\* missing capability, an insecure configuration file, chroot(CONFIGDIR), a
\* chdir("..") or lstat of the ascent, either chroot("."), chdir(client_path)
\* or execvp), the command is not executed and the exit status is non-zero.
Cex_C15_FailureExits ==
    brc.failed =>
        /\ brc.pc # "running"
        /\ brc.pc = "exit" => brc.status # 0

(***************************************************************************)
(* SpecBrcLive: a run of brc that is given the processor as long as it has *)
(* a statement to execute.                                                 *)
(***************************************************************************)
SpecBrcLive == InitBrc /\ [][NextBrc]_vars /\ WF_vars(NextBrc)

\* C17.  The do/while of break_out_of_chroot terminates: a process that is
\* in the loop leaves it, whatever chdir("..") and lstat return.
Cex_C17_AscentTerminates ==
    brc.pc \in {"ascend_chdir", "ascend_lstat"}
        ~> brc.pc \notin {"ascend_chdir", "ascend_lstat"}

(***************************************************************************)
(* SpecList: a directory is listed as the kernel layer does it, with a     *)
(* bru_opendir and, when that returned 0, a bru_readdir of the same path   *)
(* for the same caller.                                                    *)
(***************************************************************************)
ListOpendir ==
    /\ req.op = "none"
    /\ \E context \in Callers : bru_opendir(req.path, context)

ListReaddir ==
    /\ req.op = "opendir"
    /\ req.ret = 0
    /\ \E okAlt \in BOOLEAN, okMount \in BOOLEAN,
          crashAt \in 0..readdir_overflows(MAKE_RELATIVE(req.path)) :
          bru_readdir(req.path, req.context, okAlt, okMount, crashAt)

NextList == ListOpendir \/ ListReaddir

SpecList == InitReaddir /\ [][NextList]_vars

\* Whether the directory is in one backend at least.
InSomeBackend(rel) == DirExists(alt_fd, rel) \/ DirExists(mount_fd, rel)

\* C16.  Listing a directory that is in one backend at least succeeds and
\* gives the union view: bru_opendir answers not-found only for a directory
\* that is in neither backend and answers 0 to a caller who may use both
\* backends, and the bru_readdir that follows answers 0 with the union view.
Cex_C16_ListEitherBackend ==
    /\ req.op = "opendir" /\ InSomeBackend(req.rel) =>
          /\ req.ret # -ENOENT
          /\ (MayUse(req.context.uid, alt_fd) /\ MayUse(req.context.uid, mount_fd))
                => req.ret = 0
    /\ req.op = "readdir" /\ ~req.aborted /\ req.okAlt /\ req.okMount =>
          /\ req.ret = 0
          /\ EmittedNames = UnionView(req.rel)

HandleOps ==
    {"read", "write", "fsync", "ftruncate", "fgetattr", "release",
     "fsyncdir", "releasedir"}

\* C18.  A handler that is given a handle acts on what the handler that
\* made the handle had opened: bru_fsyncdir and bru_releasedir on the
\* directory bru_opendir opened, the handlers of a file on the descriptor
\* bru_open or bru_create stored.
Cex_C18_HandleKindKept ==
    req.op \in HandleOps /\ req.hat # NoTarget => req.at = req.hat

\* C19.  A bru_rename that returns an error has left the source under its
\* name with the content and mode it had, and a source that is gone after
\* a bru_rename was renamed by renameat or unlinked after the copy loop
\* had read end-of-file, with 0 returned.
Thm_C19_SourceKeptOnError ==
    req.op = "rename" /\ req.src0 # NoFile =>
        /\ req.ret < 0 =>
              /\ FsHas(files, req.old_ref_fd, req.old)
              /\ files[req.old_ref_fd][req.old] = req.src0
        /\ ~FsHas(files, req.old_ref_fd, req.old) =>
              /\ req.ret = 0
              /\ req.how \in {"renameat", "eof"}

\* A write of the copy failed after the destination had been given bytes.
Wit_C19_SourceKeptOnError ==
    /\ req.op = "rename"
    /\ req.exdev
    /\ req.how = "write"
    /\ req.ret < 0
    /\ req.src0 # NoFile
    /\ files[req.old_ref_fd][req.old] = req.src0
    /\ FsHas(files, req.new_ref_fd, req.new)
    /\ SizeOf(files[req.new_ref_fd][req.new].data) > 0

\* C20.  When bru_rename has returned, no descriptor it opened is open: the
\* process holds the descriptors of the handles not yet released only (none
\* here, no handle having been made).
Cex_C20_RenameClosesAll ==
    req.op = "rename" => DOMAIN fds = {n \in DOMAIN fds : \E h \in handles : ToInt(h.fh) = n}

====
